---- MODULE Spec2Model ----
(***************************************************************************)
(* Model of the LegalizeJSInterface pass (src/passes/LegalizeJSInterface). *)
(* A module is a set of named functions (kept in vector order), named      *)
(* function types, exports, globals and one table segment.  The pass runs  *)
(* the tempRet0 resolver, the export loop, the import loop, the removal of *)
(* the illegal imports and the function-parallel FixImports walker.        *)
(***************************************************************************)
EXTENDS Integers, Sequences, FiniteSets, TLC

VARIABLES
  funcs,                 \* Module::functionsMap : Name -> Function
  funcOrder,             \* Module::functions, the vector order of the names
  types,                 \* Module::functionTypes : Name -> FunctionType
  exports,               \* Module::exports, a sequence of Export
  globals,               \* Module::globals : Name -> Global
  table,                 \* Module::table.segments, each a sequence of names
  pc,                    \* position of LegalizeJSInterface::run
  exIdx,                 \* position of the export loop (line 59)
  originalFunctions,     \* line 70
  imIdx,                 \* position of the import loop (line 75)
  illegalImportsToLegal, \* line 124
  getTempRet0,           \* line 127
  setTempRet0,           \* line 127
  hasGlobal,             \* line 131
  fixPos,                \* FixImports: per function, the next node to visit
  run,                   \* number of the current run of the pass
  entry,                 \* the module as it was when the current run began
  input,                 \* the module as it was before the first run
  preFix                 \* the module as it was when FixImports last started

vars == <<funcs, funcOrder, types, exports, globals, table, pc, exIdx,
          originalFunctions, imIdx, illegalImportsToLegal, getTempRet0,
          setTempRet0, hasGlobal, fixPos, run, entry, input, preFix>>

modVars == <<funcs, funcOrder, types, exports, globals, table>>

-----------------------------------------------------------------------------
(* Bounds of the model *)

\* number of defined functions, besides f, whose body calls the import
NumCallers == 2

\* number of runs of the pass on the same module
MaxRuns == 2

\* width of one machine word of the scaled-down integers: the 32-bit word of
\* the program is WordBits wide here and the 64-bit integer 2 * WordBits wide
WordBits == 2

-----------------------------------------------------------------------------
(* Names.  A Name is a sequence of string pieces; prefixing a name, as     *)
(* std::string(prefix) + name.str does, prepends a piece.                  *)

NoName == <<>>

TEMP_RET_0 == <<"tempRet0">>
GET_TEMP_RET_0 == <<"getTempRet0">>
SET_TEMP_RET_0 == <<"setTempRet0">>
ENV == "env"

Prefixed(prefix, name) == <<prefix>> \o name

LegalStubName(name) == Prefixed("legalstub$", name)
LegalTypeName(name) == Prefixed("legaltype$", name)
LegalImportName(name) == Prefixed("legalimport$", name)
LegalFuncName(name) == Prefixed("legalfunc$", name)

ReservedPrefixes == {"legalstub$", "legaltype$", "legalimport$", "legalfunc$"}

-----------------------------------------------------------------------------
(* Expressions.  A body is the sequence of its nodes in post-order, which  *)
(* is the order of evaluation and the order the walker visits them in.     *)

Node(op, target, args, type) ==
  [op |-> op, target |-> target, args |-> args, type |-> type]

Arg(conv, index) == [conv |-> conv, index |-> index]

MakeCall(target, args, type) == Node("call", target, args, type)

\* A Function record.  module = "" for a defined function.
Func(params, result, localVars, type, mod, base, body) ==
  [params |-> params, result |-> result, vars |-> localVars, type |-> type,
   module |-> mod, base |-> base, body |-> body]

imported(func) == func.module # ""

\* the map m with key k bound to v
Put(m, k, v) == [x \in DOMAIN m \cup {k} |-> IF x = k THEN v ELSE m[x]]

\* the map m without the key k
Drop(m, k) == [x \in DOMAIN m \ {k} |-> m[x]]

RECURSIVE Without(_, _)
Without(seq, x) ==
  IF seq = <<>> THEN <<>>
  ELSE IF Head(seq) = x THEN Without(Tail(seq), x)
       ELSE <<Head(seq)>> \o Without(Tail(seq), x)

Range(seq) == {seq[k] : k \in DOMAIN seq}

-----------------------------------------------------------------------------
(* isIllegal *)

isIllegal(t) ==
  \/ \E k \in DOMAIN t.params : t.params[k] \in {"i64", "f32"}
  \/ t.result \in {"i64", "f32"}

-----------------------------------------------------------------------------
(* makeLegalStub: the stub an export of an illegal function is pointed at *)

\* lines 152-164: the parameters of the stub and the operands of its call
RECURSIVE ExportStubParams(_, _, _)
ExportStubParams(params, legalParams, operands) ==
  IF params = <<>>
  THEN [params |-> legalParams, operands |-> operands]
  ELSE LET param == Head(params)
           n == Len(legalParams)
       IN IF param = "i64"
          THEN ExportStubParams(Tail(params),
                                legalParams \o <<"i32", "i32">>,
                                operands \o <<Arg("recreateI64", n)>>)
          ELSE IF param = "f32"
          THEN ExportStubParams(Tail(params),
                                legalParams \o <<"f64">>,
                                operands \o <<Arg("demote", n)>>)
          ELSE ExportStubParams(Tail(params),
                                legalParams \o <<param>>,
                                operands \o <<Arg("get", n)>>)

\* lines 171-183: the write of the high word
ExportStubSet(index) ==
  IF hasGlobal
  THEN Node("global.set", TEMP_RET_0, <<Arg("getI64High", index)>>, "none")
  ELSE MakeCall(setTempRet0, <<Arg("getI64High", index)>>, "none")

\* lines 166-187: the block of a stub whose function returns an i64
ExportStubBlock(call, index) ==
  << call,
     Node("local.set", NoName, <<Arg("local", index)>>, "none"),
     ExportStubSet(index),
     Node("getI64Low", NoName, <<Arg("local", index)>>, "i32") >>

\* makeLegalStub that widens no f32 result: the stub returns what func returns
makeLegalStubKeepsF32Result(func, name) ==
  LET loop == ExportStubParams(func.params, <<>>, <<>>)
      call == MakeCall(name, loop.operands, func.result)
  IN IF func.result = "i64"
     THEN Func(loop.params, "i32", <<"i64">>, NoName, "", "",
               ExportStubBlock(call, Len(loop.params)))
     ELSE Func(loop.params, func.result, <<>>, NoName, "", "", <<call>>)

\* lines 143-194: the Function `legal`, for the function func named name
makeLegalStub(func, name) ==
  LET loop == ExportStubParams(func.params, <<>>, <<>>)
      call == MakeCall(name, loop.operands, func.result)
  IN IF func.result = "i64"
     THEN Func(loop.params, "i32", <<"i64">>, NoName, "", "",
               ExportStubBlock(call, Len(loop.params)))
     ELSE IF func.result = "f32"
     THEN Func(loop.params, "f64", <<>>, NoName, "", "",
               <<call, Node("promote", NoName, <<>>, "f64")>>)
     ELSE Func(loop.params, func.result, <<>>, NoName, "", "", <<call>>)

-----------------------------------------------------------------------------
(* makeLegalStubForCalledImport: the legal import, its type and the stub   *)
(* the module calls in place of an illegal import                          *)

\* lines 221-235: the legal type's parameters and the operands of the call
RECURSIVE ImportStubParams(_, _, _, _)
ImportStubParams(params, funcParams, typeParams, operands) ==
  IF params = <<>>
  THEN [funcParams |-> funcParams, typeParams |-> typeParams,
        operands |-> operands]
  ELSE LET param == Head(params)
           n == Len(funcParams)
       IN IF param = "i64"
          THEN ImportStubParams(Tail(params), funcParams \o <<param>>,
                                typeParams \o <<"i32", "i32">>,
                                operands \o <<Arg("getI64Low", n),
                                              Arg("getI64High", n)>>)
          ELSE IF param = "f32"
          THEN ImportStubParams(Tail(params), funcParams \o <<param>>,
                                typeParams \o <<"f64">>,
                                operands \o <<Arg("promote", n)>>)
          ELSE ImportStubParams(Tail(params), funcParams \o <<param>>,
                                typeParams \o <<param>>,
                                operands \o <<Arg("get", n)>>)

\* lines 239-244: the read of the high word
ImportStubGet ==
  IF hasGlobal
  THEN Node("global.get", TEMP_RET_0, <<>>, "i32")
  ELSE MakeCall(getTempRet0, <<>>, "i32")

\* recreateI64 handed the channel read as its first, low, operand
ImportStubRecreateReadsFirst(call, get) ==
  <<get, call, Node("recreateI64", NoName, <<>>, "i64")>>

\* line 245: I64Utilities::recreateI64(builder, call, get), in post-order
ImportStubRecreate(call, get) ==
  <<call, get, Node("recreateI64", NoName, <<>>, "i64")>>

\* LegalResult that widens no f32
LegalResultKeepsF32(result) ==
  IF result = "i64" THEN "i32" ELSE result

\* the result of the legal type, lines 237-255
LegalResult(result) ==
  IF result = "i64" THEN "i32" ELSE IF result = "f32" THEN "f64" ELSE result

\* lines 204-257: type, legal (the import) and func (the stub), for the
\* import im named name
makeLegalStubForCalledImport(im, name) ==
  LET imFunctionType == types[im.type]
      loop == ImportStubParams(imFunctionType.params, <<>>, <<>>, <<>>)
      legalResult == LegalResult(imFunctionType.result)
      call == MakeCall(LegalImportName(name), loop.operands, legalResult)
      body == IF imFunctionType.result = "i64"
              THEN ImportStubRecreate(call, ImportStubGet)
              ELSE IF imFunctionType.result = "f32"
              THEN <<call, Node("demote", NoName, <<>>, "f32")>>
              ELSE <<call>>
  IN [type  |-> [params |-> loop.typeParams, result |-> legalResult],
      legal |-> Func(loop.typeParams, legalResult, <<>>, LegalTypeName(name),
                     im.module, im.base, <<>>),
      func  |-> Func(loop.funcParams, imFunctionType.result, <<>>, NoName,
                     "", "", body)]

-----------------------------------------------------------------------------
(* The input modules *)

Sig(params, result) == [params |-> params, result |-> result]

\* the signatures the function f and the import imp are drawn from
SigSet ==
  { Sig(<<"i32">>, "i32"),
    Sig(<<"i64">>, "i64"),
    Sig(<<"f32", "f64">>, "f32"),
    Sig(<<"i32", "i64">>, "none") }

F == <<"f">>
IMP == <<"imp">>
ENV_GET == <<"envGet">>
ENV_SET == <<"envSet">>
WASM_GET == <<"wasmGet">>
WASM_SET == <<"wasmSet">>
Caller(k) == <<"caller", ToString(k)>>

\* which of the pair the module imports from env, or exports; "bothI64" is
\* the pair imported with i64 in place of i32 in its types
ChannelChoices == {"none", "get", "set", "both"}
ImportedChannelChoices == ChannelChoices \cup {"bothI64"}

ChannelWord(p) == IF p.chanImp = "bothI64" THEN "i64" ELSE "i32"

\* a function, type or export name that the module bears before the run and
\* that the run would derive or create itself
Collisions ==
  {"none", "getTempRet0", "setTempRet0", "legalstub", "legalfunc", "legalfuncImport",
   "legalimport", "legaltype"}

DefinedFunc(sig, body) == Func(sig.params, sig.result, <<>>, NoName, "", "", body)

ImportedFunc(sig, type, base) ==
  Func(sig.params, sig.result, <<>>, type, ENV, base, <<>>)

Export(name, value, kind) == [name |-> name, value |-> value, kind |-> kind]

\* the named functions of the input p, in vector order
InputFuncList(p) ==
     (IF p.chanImp \in {"get", "both", "bothI64"}
      THEN << <<ENV_GET, ImportedFunc(Sig(<<>>, ChannelWord(p)),
                                      <<"type$get">>, "getTempRet0")>> >>
      ELSE <<>>)
  \o (IF p.chanImp \in {"set", "both", "bothI64"}
      THEN << <<ENV_SET, ImportedFunc(Sig(<<ChannelWord(p)>>, "none"),
                                      <<"type$set">>, "setTempRet0")>> >>
      ELSE <<>>)
  \o (IF p.chanExp \in {"get", "both"}
      THEN << <<WASM_GET, DefinedFunc(Sig(<<>>, "i32"), <<>>)>> >>
      ELSE <<>>)
  \o (IF p.chanExp \in {"set", "both"}
      THEN << <<WASM_SET, DefinedFunc(Sig(<<"i32">>, "none"), <<>>)>> >>
      ELSE <<>>)
  \o << <<IMP, ImportedFunc(p.sigI, <<"type$imp">>, "imp")>> >>
  \o (CASE p.collide = "getTempRet0" ->
             << <<GET_TEMP_RET_0, DefinedFunc(Sig(<<>>, "i32"), <<>>)>> >>
        [] p.collide = "setTempRet0" ->
             << <<SET_TEMP_RET_0, DefinedFunc(Sig(<<"i32">>, "none"), <<>>)>> >>
        [] p.collide = "legalstub" ->
             << <<LegalStubName(F), DefinedFunc(Sig(<<"i64">>, "i64"), <<>>)>> >>
        [] p.collide = "legalfunc" ->
             << <<LegalFuncName(IMP),
                  DefinedFunc(p.sigI, <<MakeCall(IMP, <<>>, p.sigI.result)>>)>> >>
        [] p.collide = "legalfuncImport" ->
             << <<LegalFuncName(IMP),
                  ImportedFunc(Sig(<<"i64">>, "i64"), <<"type$other">>, "other")>> >>
        [] p.collide = "legalimport" ->
             << <<LegalImportName(IMP),
                  ImportedFunc(Sig(<<"i64">>, "i64"), <<"type$other">>, "other")>> >>
        [] OTHER -> <<>>)
  \o << <<F, DefinedFunc(p.sigF, <<MakeCall(IMP, <<>>, p.sigI.result)>>)>> >>
  \o [k \in 1..NumCallers |->
        <<Caller(k), DefinedFunc(Sig(<<>>, "none"),
                                 <<MakeCall(IMP, <<>>, p.sigI.result)>>)>>]

InputTypes(p) ==
  LET always == {<<"type$imp">>}
      chan == (IF p.chanImp \in {"get", "both", "bothI64"}
               THEN {<<"type$get">>} ELSE {})
              \cup (IF p.chanImp \in {"set", "both", "bothI64"}
                    THEN {<<"type$set">>} ELSE {})
      other == IF p.collide \in {"legalfuncImport", "legalimport"}
               THEN {<<"type$other">>} ELSE {}
      legal == IF p.collide = "legaltype" THEN {LegalTypeName(IMP)} ELSE {}
  IN [t \in always \cup chan \cup other \cup legal |->
        CASE t = <<"type$imp">> -> p.sigI
          [] t = <<"type$get">> -> Sig(<<>>, ChannelWord(p))
          [] t = <<"type$set">> -> Sig(<<ChannelWord(p)>>, "none")
          [] OTHER -> Sig(<<"i64">>, "i64")]

InputExports(p) ==
     << Export(F, F, "Function"), Export(<<"f_alias">>, F, "Function") >>
  \o (IF p.impExported THEN << Export(IMP, IMP, "Function") >> ELSE <<>>)
  \o (IF p.chanExp \in {"get", "both"}
      THEN << Export(GET_TEMP_RET_0, WASM_GET, "Function") >> ELSE <<>>)
  \o (IF p.chanExp \in {"set", "both"}
      THEN << Export(SET_TEMP_RET_0, WASM_SET, "Function") >> ELSE <<>>)
  \o (IF p.glob THEN << Export(TEMP_RET_0, TEMP_RET_0, "Global") >> ELSE <<>>)

InputGlobals(p) ==
  [g \in (IF p.glob THEN {TEMP_RET_0} ELSE {}) |->
     [type |-> "i32", mutable |-> TRUE]]

InputModule(p) ==
  LET list == InputFuncList(p)
  IN [funcs     |-> [n \in {list[k][1] : k \in DOMAIN list} |->
                       list[CHOOSE k \in DOMAIN list : list[k][1] = n][2]],
      funcOrder |-> [k \in DOMAIN list |-> list[k][1]],
      types     |-> InputTypes(p),
      exports   |-> InputExports(p),
      globals   |-> InputGlobals(p),
      table     |-> << <<IMP, F, IMP>> >>]

\* the channel configurations every signature and collision is combined with
CoreChannels == {<<"none", "none">>, <<"both", "none">>, <<"none", "both">>}

InputParams ==
  { p \in [chanImp : ImportedChannelChoices, chanExp : ChannelChoices, glob : BOOLEAN,
           sigF : SigSet, sigI : SigSet, impExported : BOOLEAN,
           collide : Collisions] :
      \/ /\ <<p.chanImp, p.chanExp>> \in CoreChannels
         /\ p.collide # "none" => ~p.impExported
      \/ /\ p.sigF = Sig(<<"i64">>, "i64")
         /\ p.sigI = Sig(<<"i64">>, "i64")
         /\ ~p.impExported
         /\ p.collide \in {"none", "getTempRet0", "setTempRet0"} }

Inputs == {InputModule(p) : p \in InputParams}

-----------------------------------------------------------------------------
(* The state of the module and of the pass *)

Mod ==
  [funcs |-> funcs, funcOrder |-> funcOrder, types |-> types,
   exports |-> exports, globals |-> globals, table |-> table]

EmptyMap == [x \in {} |-> NoName]

\* a pass object as createLegalizeJSInterfacePass makes it
FreshPass ==
  /\ pc = "resolve"
  /\ exIdx = 0
  /\ originalFunctions = <<>>
  /\ imIdx = 0
  /\ illegalImportsToLegal = EmptyMap
  /\ getTempRet0 = NoName
  /\ setTempRet0 = NoName
  /\ hasGlobal \in BOOLEAN
  /\ fixPos = EmptyMap

Init ==
  /\ \E m \in Inputs :
       /\ funcs = m.funcs
       /\ funcOrder = m.funcOrder
       /\ types = m.types
       /\ exports = m.exports
       /\ globals = m.globals
       /\ table = m.table
       /\ entry = m
       /\ input = m
       /\ preFix = m
  /\ run = 1
  /\ FreshPass

-----------------------------------------------------------------------------
(* The module's lookups and updates *)

Min(S) == CHOOSE x \in S : \A y \in S : x <= y

\* ImportInfo::getImportedFunction: the first import of that module and base
getImportedFunction(mod, base) ==
  LET hits == {k \in DOMAIN funcOrder :
                 /\ funcs[funcOrder[k]].module = mod
                 /\ funcs[funcOrder[k]].base = base}
  IN IF hits = {} THEN NoName ELSE funcOrder[Min(hits)]

\* Module::getExportOrNull: the position of the export of that name, or 0
getExportOrNull(name) ==
  LET hits == {k \in DOMAIN exports : exports[k].name = name}
  IN IF hits = {} THEN 0 ELSE Min(hits)

\* Module::addFunction refuses a name the module already bears
addFunctionFails(fs, name) == name \in DOMAIN fs

\* a guarded addFunction: `if (!getFunctionOrNull(name)) addFunction(...)`
ensureFunction(m, name, func) ==
  IF name \in DOMAIN m.funcs
  THEN m
  ELSE [m EXCEPT !.funcs = Put(m.funcs, name, func),
                 !.funcOrder = Append(m.funcOrder, name)]

\* a guarded addFunctionType
ensureFunctionType(m, name, type) ==
  IF name \in DOMAIN m.types
  THEN m
  ELSE [m EXCEPT !.types = Put(m.types, name, type)]

\* the module variables take the fields of m
SetModule(m) ==
  /\ funcs' = m.funcs
  /\ funcOrder' = m.funcOrder
  /\ types' = m.types
  /\ exports' = m.exports
  /\ globals' = m.globals
  /\ table' = m.table

-----------------------------------------------------------------------------
(* ensureTempRet0Helpers *)

importedGet == getImportedFunction(ENV, "getTempRet0")
importedSet == getImportedFunction(ENV, "setTempRet0")
exportedGet == getExportOrNull(GET_TEMP_RET_0)
exportedSet == getExportOrNull(SET_TEMP_RET_0)

passVarsButChannel ==
  <<originalFunctions, imIdx, illegalImportsToLegal, fixPos, run, entry, input, preFix>>

\* lines 278-283: both imported
ResolveImported ==
  /\ pc = "resolve"
  /\ importedGet # NoName /\ importedSet # NoName
  /\ getTempRet0' = importedGet
  /\ setTempRet0' = importedSet
  /\ hasGlobal' = FALSE
  /\ pc' = "exports"
  /\ exIdx' = 1
  /\ UNCHANGED <<modVars, passVarsButChannel>>

\* lines 284-286 and 297-299: one of the pair without the other
partialImports ==
  /\ ~(importedGet # NoName /\ importedSet # NoName)
  /\ (importedGet # NoName \/ importedSet # NoName)

partialExports ==
  /\ importedGet = NoName /\ importedSet = NoName
  /\ ~(exportedGet # 0 /\ exportedSet # 0)
  /\ (exportedGet # 0 \/ exportedSet # 0)

ResolveFatal ==
  /\ pc = "resolve"
  /\ partialImports \/ partialExports
  /\ pc' = "fatal"
  /\ UNCHANGED <<modVars, exIdx, getTempRet0, setTempRet0, hasGlobal,
                 passVarsButChannel>>

\* the exported pair taken to come with its register
probeGlobalAssumed == TRUE

\* line 294: whether the module has a global named tempRet0
probeGlobal == TEMP_RET_0 \in DOMAIN globals

\* lines 289-296: both exported
ResolveExported ==
  /\ pc = "resolve"
  /\ importedGet = NoName /\ importedSet = NoName
  /\ exportedGet # 0 /\ exportedSet # 0
  /\ getTempRet0' = exports[exportedGet].value
  /\ setTempRet0' = exports[exportedSet].value
  /\ hasGlobal' = probeGlobal
  /\ pc' = "exports"
  /\ exIdx' = 1
  /\ UNCHANGED <<modVars, passVarsButChannel>>

\* lines 305-312: the register, made when the module has none of that name
ensureTempRet0Global(m) ==
  IF TEMP_RET_0 \in DOMAIN m.globals
  THEN m
  ELSE [m EXCEPT !.globals =
          Put(m.globals, TEMP_RET_0, [type |-> "i32", mutable |-> TRUE])]

\* lines 313-325: the lambda add, once addFunction has accepted the name
add(m, name, hasParam, result, body) ==
  [m EXCEPT
     !.funcs = Put(m.funcs, name,
                   Func(IF hasParam THEN <<"i32">> ELSE <<>>, result, <<>>,
                        NoName, "", "", body)),
     !.funcOrder = Append(m.funcOrder, name),
     !.exports = Append(m.exports, Export(name, name, "Function"))]

getterBody == <<Node("global.get", TEMP_RET_0, <<>>, "i32")>>
setterBody == <<Node("global.set", TEMP_RET_0, <<Arg("get", 0)>>, "none")>>

\* the guard of the creating branch without the check of lines 297-299
neitherImported ==
  importedGet = NoName /\ importedSet = NoName

neitherImportedNorExported ==
  /\ importedGet = NoName /\ importedSet = NoName
  /\ exportedGet = 0 /\ exportedSet = 0

\* lines 300-327: neither imported nor exported, and both adds succeed
ResolveCreate ==
  /\ pc = "resolve"
  /\ neitherImportedNorExported
  /\ LET m0 == ensureTempRet0Global(Mod)
         m1 == add(m0, GET_TEMP_RET_0, FALSE, "i32", getterBody)
         m2 == add(m1, SET_TEMP_RET_0, TRUE, "none", setterBody)
     IN /\ ~addFunctionFails(m0.funcs, GET_TEMP_RET_0)
        /\ ~addFunctionFails(m1.funcs, SET_TEMP_RET_0)
        /\ SetModule(m2)
  /\ getTempRet0' = GET_TEMP_RET_0
  /\ setTempRet0' = SET_TEMP_RET_0
  /\ hasGlobal' = TRUE
  /\ pc' = "exports"
  /\ exIdx' = 1
  /\ UNCHANGED passVarsButChannel

\* lines 300-327, when addFunction (line 319) refuses the getter's or the
\* setter's name: the run ends there, with what was added before
ResolveCreateRefused ==
  /\ pc = "resolve"
  /\ neitherImportedNorExported
  /\ LET m0 == ensureTempRet0Global(Mod)
         m1 == add(m0, GET_TEMP_RET_0, FALSE, "i32", getterBody)
     IN \/ /\ addFunctionFails(m0.funcs, GET_TEMP_RET_0)
           /\ SetModule(m0)
        \/ /\ ~addFunctionFails(m0.funcs, GET_TEMP_RET_0)
           /\ addFunctionFails(m1.funcs, SET_TEMP_RET_0)
           /\ SetModule(m1)
  /\ getTempRet0' = GET_TEMP_RET_0
  /\ setTempRet0' = SET_TEMP_RET_0
  /\ hasGlobal' = TRUE
  /\ pc' = "addFunctionFatal"
  /\ UNCHANGED <<exIdx, passVarsButChannel>>

-----------------------------------------------------------------------------
(* LegalizeJSInterface::run, lines 59-73: the export loop *)

\* lines 62-66 with 197-200: the module once the export ex, at position k, of
\* an illegal function has been given its stub
legalizeExport(m, k) ==
  LET ex == m.exports[k]
      func == m.funcs[ex.value]
      legalName == LegalStubName(ex.value)
      withStub == ensureFunction(m, legalName, makeLegalStub(func, ex.value))
  IN [withStub EXCEPT !.exports[k].value = legalName]

\* exportNeedsStub that asks for a stub whenever the signature is not made
\* of i32 alone
exportNeedsStubF64(m, k) ==
  /\ m.exports[k].kind = "Function"
  /\ LET func == m.funcs[m.exports[k].value]
     IN \/ \E j \in DOMAIN func.params : func.params[j] # "i32"
        \/ func.result \notin {"i32", "none"}

\* line 60 and line 63: the exports the loop rewrites
exportNeedsStub(m, k) ==
  /\ m.exports[k].kind = "Function"
  /\ isIllegal(m.funcs[m.exports[k].value])

LegalizeExport ==
  /\ pc = "exports"
  /\ exIdx <= Len(exports)
  /\ IF exportNeedsStub(Mod, exIdx)
     THEN SetModule(legalizeExport(Mod, exIdx))
     ELSE UNCHANGED modVars
  /\ exIdx' = exIdx + 1
  /\ UNCHANGED <<pc, getTempRet0, setTempRet0, hasGlobal, passVarsButChannel>>

\* lines 70-73
EndExports ==
  /\ pc = "exports"
  /\ exIdx > Len(exports)
  /\ originalFunctions' = funcOrder
  /\ imIdx' = 1
  /\ pc' = "imports"
  /\ UNCHANGED <<modVars, exIdx, illegalImportsToLegal, getTempRet0,
                 setTempRet0, hasGlobal, fixPos, run, entry, input, preFix>>

-----------------------------------------------------------------------------
(* lines 75-89: the import loop *)

\* line 76
importNeedsStub(m, name) ==
  /\ imported(m.funcs[name])
  /\ isIllegal(m.types[m.funcs[name].type])

\* lines 259-267: the three guarded adds
addImportStubs(m, name, made) ==
  LET m1 == ensureFunction(m, LegalFuncName(name), made.func)
      m2 == ensureFunctionType(m1, LegalTypeName(name), made.type)
  IN ensureFunction(m2, LegalImportName(name), made.legal)

\* rewriteTable that leaves a segment at its first entry of that name
rewriteTableFirstOnly(segments, name, funcName) ==
  [s \in DOMAIN segments |->
     [k \in DOMAIN segments[s] |->
        IF /\ segments[s][k] = name
           /\ \A j \in 1..(k - 1) : segments[s][j] # name
        THEN funcName
        ELSE segments[s][k]]]

\* lines 81-87
rewriteTable(segments, name, funcName) ==
  [s \in DOMAIN segments |->
     [k \in DOMAIN segments[s] |->
        IF segments[s][k] = name THEN funcName ELSE segments[s][k]]]

\* lines 77-87
legalizeImport(m, name) ==
  LET made == makeLegalStubForCalledImport(m.funcs[name], name)
      m1 == addImportStubs(m, name, made)
  IN [m1 EXCEPT !.table = rewriteTable(m1.table, name, LegalFuncName(name))]

LegalizeImport ==
  /\ pc = "imports"
  /\ imIdx <= Len(originalFunctions)
  /\ LET name == originalFunctions[imIdx]
     IN IF importNeedsStub(Mod, name)
        THEN /\ SetModule(legalizeImport(Mod, name))
             /\ illegalImportsToLegal' =
                  Put(illegalImportsToLegal, name, LegalFuncName(name))
        ELSE UNCHANGED <<modVars, illegalImportsToLegal>>
  /\ imIdx' = imIdx + 1
  /\ UNCHANGED <<pc, exIdx, originalFunctions, getTempRet0, setTempRet0,
                 hasGlobal, fixPos, run, entry, input, preFix>>

\* line 90: whether the removal and FixImports run at all
needsFix == DOMAIN illegalImportsToLegal # {}

EndImports ==
  /\ pc = "imports"
  /\ imIdx > Len(originalFunctions)
  /\ pc' = IF needsFix THEN "remove" ELSE "done"
  /\ UNCHANGED <<modVars, exIdx, originalFunctions, imIdx,
                 illegalImportsToLegal, getTempRet0, setTempRet0, hasGlobal,
                 fixPos, run, entry, input, preFix>>

-----------------------------------------------------------------------------
(* lines 91-93: the removal of the illegal imports *)

removeFunction(m, name) ==
  [m EXCEPT !.funcs = Drop(m.funcs, name),
            !.funcOrder = Without(m.funcOrder, name)]

\* the keys of the map that the loop of line 91 has yet to reach; the order
\* of std::map<Name, Name> is left open
toRemove == DOMAIN illegalImportsToLegal \cap DOMAIN funcs

RemoveImport ==
  /\ pc = "remove"
  /\ \E name \in toRemove : SetModule(removeFunction(Mod, name))
  /\ UNCHANGED <<pc, exIdx, originalFunctions, imIdx, illegalImportsToLegal,
                 getTempRet0, setTempRet0, hasGlobal, fixPos, run, entry,
                 input, preFix>>

-----------------------------------------------------------------------------
(* lines 97-118: FixImports, one walker per defined function *)

definedFunctions == {n \in DOMAIN funcs : ~imported(funcs[n])}

\* the nested runner started before the loop of line 91 is over
StartFixBeforeRemoval ==
  /\ pc = "remove"
  /\ fixPos' = [n \in definedFunctions |-> 1]
  /\ preFix' = Mod
  /\ pc' = "fix"
  /\ UNCHANGED <<modVars, exIdx, originalFunctions, imIdx,
                 illegalImportsToLegal, getTempRet0, setTempRet0, hasGlobal,
                 run, entry, input>>

\* lines 115-118: the nested runner starts once the loop of line 91 is over
StartFix ==
  /\ pc = "remove"
  /\ toRemove = {}
  /\ fixPos' = [n \in definedFunctions |-> 1]
  /\ preFix' = Mod
  /\ pc' = "fix"
  /\ UNCHANGED <<modVars, exIdx, originalFunctions, imIdx,
                 illegalImportsToLegal, getTempRet0, setTempRet0, hasGlobal,
                 run, entry, input>>

\* visitCall that takes every function the pass names as the safe place
visitCallSparesStubs(curr, functionName) ==
  IF curr.target \notin DOMAIN illegalImportsToLegal
  THEN curr
  ELSE IF functionName # NoName /\ Head(functionName) \in ReservedPrefixes
       THEN curr
       ELSE MakeCall(illegalImportsToLegal[curr.target], curr.args, curr.type)

\* lines 106-112: the node that stands where the call curr stood, in the
\* function named functionName
visitCall(curr, functionName) ==
  IF curr.target \notin DOMAIN illegalImportsToLegal
  THEN curr
  ELSE IF illegalImportsToLegal[curr.target] = functionName
       THEN curr
       ELSE MakeCall(illegalImportsToLegal[curr.target], curr.args, curr.type)

\* the first Call of body at or after position from, 0 when there is none
nextCall(body, from) ==
  LET calls == {k \in DOMAIN body : k >= from /\ body[k].op = "call"}
  IN IF calls = {} THEN 0 ELSE Min(calls)

\* one visitCall of the walker of the function n
FixStep(n) ==
  /\ pc = "fix"
  /\ LET k == nextCall(funcs[n].body, fixPos[n])
     IN /\ k # 0
        /\ funcs' = [funcs EXCEPT ![n].body[k] = visitCall(funcs[n].body[k], n)]
        /\ fixPos' = [fixPos EXCEPT ![n] = k + 1]
  /\ UNCHANGED <<funcOrder, types, exports, globals, table, pc, exIdx,
                 originalFunctions, imIdx, illegalImportsToLegal, getTempRet0,
                 setTempRet0, hasGlobal, run, entry, input, preFix>>

fixFinished ==
  \A n \in DOMAIN fixPos : nextCall(funcs[n].body, fixPos[n]) = 0

\* line 118 returns once every walker is through
EndFix ==
  /\ pc = "fix"
  /\ fixFinished
  /\ pc' = "done"
  /\ UNCHANGED <<modVars, exIdx, originalFunctions, imIdx,
                 illegalImportsToLegal, getTempRet0, setTempRet0, hasGlobal,
                 fixPos, run, entry, input, preFix>>

-----------------------------------------------------------------------------
(* The pass run again, by a fresh pass object, on the module it left *)

Rerun ==
  /\ pc = "done"
  /\ run < MaxRuns
  /\ run' = run + 1
  /\ entry' = Mod
  /\ pc' = "resolve"
  /\ exIdx' = 0
  /\ originalFunctions' = <<>>
  /\ imIdx' = 0
  /\ illegalImportsToLegal' = EmptyMap
  /\ getTempRet0' = NoName
  /\ setTempRet0' = NoName
  /\ hasGlobal' \in BOOLEAN
  /\ fixPos' = EmptyMap
  /\ UNCHANGED <<modVars, input, preFix>>

Next ==
  \/ ResolveImported
  \/ ResolveFatal
  \/ ResolveExported
  \/ ResolveCreate
  \/ ResolveCreateRefused
  \/ LegalizeExport
  \/ EndExports
  \/ LegalizeImport
  \/ EndImports
  \/ RemoveImport
  \/ StartFix
  \/ \E n \in DOMAIN fixPos : FixStep(n)
  \/ EndFix
  \/ Rerun

Spec == Init /\ [][Next]_vars

TypeOK ==
  /\ pc \in {"resolve", "fatal", "addFunctionFatal", "exports", "imports",
             "remove", "fix", "done"}
  /\ run \in 1..MaxRuns
  /\ Range(funcOrder) = DOMAIN funcs
  /\ Len(funcOrder) = Cardinality(DOMAIN funcs)

-----------------------------------------------------------------------------
(* Vocabulary of the properties *)

\* the run has returned from LegalizeJSInterface::run
Completed == pc = "done"

\* the resolver has returned and the rest of the run is under way or over
Resolved == pc \in {"exports", "imports", "remove", "fix", "done"}

LegalValueType(t) == t \notin {"i64", "f32"}

LegalSignature(sig) ==
  /\ \A k \in DOMAIN sig.params : LegalValueType(sig.params[k])
  /\ LegalValueType(sig.result)

\* no function and no function type of the module m bears a name that
\* begins with one of the given prefixes
NoNameBegins(m, prefixes) ==
  \A n \in DOMAIN m.funcs \cup DOMAIN m.types :
    n = NoName \/ Head(n) \notin prefixes

\* the imports of the module m whose type is illegal
IllegalImports(m) ==
  {n \in DOMAIN m.funcs :
     /\ m.funcs[n].module # ""
     /\ ~LegalSignature(m.types[m.funcs[n].type])}

\* the exports of kind Function of the current module all target a function
\* of the module whose signature is legal
ExportsLegal ==
  \A k \in DOMAIN exports :
    exports[k].kind = "Function" =>
      /\ exports[k].value \in DOMAIN funcs
      /\ LegalSignature(funcs[exports[k].value])

RECURSIVE SplitParams(_)
SplitParams(params) ==
  IF params = <<>> THEN <<>>
  ELSE (CASE Head(params) = "i64" -> <<"i32", "i32">>
          [] Head(params) = "f32" -> <<"f64">>
          [] OTHER -> <<Head(params)>>) \o SplitParams(Tail(params))

\* the legal form of a result: an i64 becomes an i32, an f32 an f64
SplitResult(result) ==
  CASE result = "i64" -> "i32" [] result = "f32" -> "f64" [] OTHER -> result

\* every import of the current module has a legal signature, as a function
\* and by the function type it names
ImportsLegal ==
  \A n \in DOMAIN funcs :
    funcs[n].module # "" =>
      /\ LegalSignature(funcs[n])
      /\ funcs[n].type \in DOMAIN types
      /\ LegalSignature(types[funcs[n].type])

\* the import x, illegal when the run began, is gone and legalimport$x
\* stands in its place, with x's host module and base and the legal form of
\* x's type
ImportReplaced(x) ==
  LET old == entry.funcs[x]
      oldType == entry.types[old.type]
      legalSig == Sig(SplitParams(oldType.params), SplitResult(oldType.result))
  IN /\ x \notin DOMAIN funcs
     /\ LegalImportName(x) \in DOMAIN funcs
     /\ LET legal == funcs[LegalImportName(x)]
        IN /\ legal.module = old.module
           /\ legal.base = old.base
           /\ legal.params = legalSig.params
           /\ legal.result = legalSig.result
           /\ legal.type \in DOMAIN types
           /\ types[legal.type] = legalSig

ImportsLegalized ==
  /\ ImportsLegal
  /\ \A x \in IllegalImports(entry) : ImportReplaced(x)

\* C2 as stated: after a completing run every remaining import is legal,
\* and each import that was illegal on entry has been removed and replaced
\* by legalimport$<name>, of the same host module and base and of the legal
\* form of its type
C2_Original == Completed => ImportsLegalized

\* C2, amended: the same, for the modules that bore no function named with
\* the prefix legalimport$ and no function type named with the prefix
\* legaltype$ before the first run
C2_ImportsLegalized ==
  (Completed /\ NoNameBegins(input, {"legalimport$", "legaltype$"}))
    => ImportsLegalized

\* a first run is over on a module, free of such names, whose import imp
\* took an i32 and an i64, and imp has been
\* replaced by a legal import that takes three i32
C2_Witness ==
  /\ Completed /\ run = 1
  /\ NoNameBegins(input, {"legalimport$", "legaltype$"})
  /\ IMP \in IllegalImports(entry)
  /\ entry.funcs[IMP].params = <<"i32", "i64">>
  /\ IMP \notin DOMAIN funcs
  /\ funcs[LegalImportName(IMP)].params = <<"i32", "i32", "i32">>

\* the targets of the calls of a body
CallTargets(body) == {body[k].target : k \in {i \in DOMAIN body : body[i].op = "call"}}

\* every call that targeted x when the run began targets legalfunc$x, and so
\* does the call of the export stub legalstub$x made during the run
CallsRedirected(x) ==
  /\ \A n \in DOMAIN entry.funcs \cap DOMAIN funcs :
       \A k \in DOMAIN entry.funcs[n].body :
         (entry.funcs[n].body[k].op = "call" /\ entry.funcs[n].body[k].target = x)
           => /\ k \in DOMAIN funcs[n].body
              /\ funcs[n].body[k].op = "call"
              /\ funcs[n].body[k].target = LegalFuncName(x)
  /\ (LegalStubName(x) \in DOMAIN funcs \ DOMAIN entry.funcs)
       => funcs[LegalStubName(x)].body[1].target = LegalFuncName(x)

\* no call of the module targets x
NoCallTo(x) == \A n \in DOMAIN funcs : x \notin CallTargets(funcs[n].body)

\* legalfunc$x calls legalimport$x and does not call itself
StubCallsLegalImport(x) ==
  /\ LegalFuncName(x) \in DOMAIN funcs
  /\ LegalImportName(x) \in CallTargets(funcs[LegalFuncName(x)].body)
  /\ LegalFuncName(x) \notin CallTargets(funcs[LegalFuncName(x)].body)

CallSitesFixed ==
  \A x \in IllegalImports(entry) :
    CallsRedirected(x) /\ NoCallTo(x) /\ StubCallsLegalImport(x)

\* C3 as stated: after a completing run, for every import X illegal on
\* entry, every call that targeted X targets legalfunc$X, no call targets
\* X, and legalfunc$X calls legalimport$X and never itself
C3_Original == Completed => CallSitesFixed

\* the module bore no function named with the prefix legalfunc$ or
\* legalimport$ before the first run, and the getter the resolver settled
\* on is not itself an import that was illegal when the run began
C3_Covered ==
  /\ NoNameBegins(input, {"legalfunc$", "legalimport$"})
  /\ getTempRet0 \notin IllegalImports(entry)

\* C3, amended: the same, for the modules that bore no function named with
\* the prefix legalfunc$ or legalimport$ before the first run and whose
\* resolved getter is not itself an illegal import
C3_CallSitesFixed == (Completed /\ C3_Covered) => CallSitesFixed

\* a first run is over on a module, free of such names, whose illegal import
\* imp was exported and called from f and from the callers: the three
\* functions and the export stub legalstub$imp call legalfunc$imp
C3_Witness ==
  /\ Completed /\ run = 1
  /\ C3_Covered
  /\ IMP \in IllegalImports(entry)
  /\ \A n \in {F} \cup {Caller(k) : k \in 1..NumCallers} :
       /\ CallTargets(entry.funcs[n].body) = {IMP}
       /\ CallTargets(funcs[n].body) = {LegalFuncName(IMP)}
  /\ LegalStubName(IMP) \in DOMAIN funcs \ DOMAIN entry.funcs
  /\ LegalFuncName(IMP) \in CallTargets(funcs[LegalStubName(IMP)].body)
  /\ LegalImportName(IMP) \in CallTargets(funcs[LegalFuncName(IMP)].body)

\* the names the table segments of the module m hold
TableNames(m) == UNION {Range(m.table[s]) : s \in DOMAIN m.table}

\* the imports, illegal when the run began, that the run has removed
RemovedImports == IllegalImports(entry) \ DOMAIN funcs

\* no entry of a table segment names a removed illegal import
TableFreeOfRemoved == TableNames(Mod) \cap RemovedImports = {}

\* entry by entry, the table is the table of the run's beginning with
\* legalfunc$x for each illegal import x, and names functions of the module
TableRewritten ==
  /\ DOMAIN table = DOMAIN entry.table
  /\ \A s \in DOMAIN table :
       /\ DOMAIN table[s] = DOMAIN entry.table[s]
       /\ \A k \in DOMAIN table[s] :
            /\ table[s][k] =
                 IF entry.table[s][k] \in IllegalImports(entry)
                 THEN LegalFuncName(entry.table[s][k])
                 ELSE entry.table[s][k]
            /\ table[s][k] \in DOMAIN funcs

C5_Original == (Completed /\ run >= 2) => Mod = entry

\* C5, amended: the same, for the modules that bore no function named with
\* the prefix legalstub$ and no function type named with the prefix
\* legaltype$ before the first run
C5_Idempotent ==
  (Completed /\ run >= 2 /\ NoNameBegins(input, {"legalstub$", "legaltype$"}))
    => Mod = entry

\* a second run is over on a module, free of such names, whose first run
\* made the register, the getter and the setter, an export stub and an
\* import stub
C5_Witness ==
  /\ Completed /\ run = 2
  /\ NoNameBegins(input, {"legalstub$", "legaltype$"})
  /\ Mod = entry
  /\ Mod # input
  /\ TEMP_RET_0 \in DOMAIN globals \ DOMAIN input.globals
  /\ {GET_TEMP_RET_0, SET_TEMP_RET_0, LegalStubName(F), LegalFuncName(IMP)}
       \subseteq DOMAIN funcs \ DOMAIN input.funcs

\* the functions the module m imports from env under that base
EnvImports(m, base) ==
  {n \in DOMAIN m.funcs : m.funcs[n].module = "env" /\ m.funcs[n].base = base}

\* the targets of the exports of the module m of that name
ExportTargets(m, name) ==
  {m.exports[k].value : k \in {i \in DOMAIN m.exports : m.exports[i].name = name}}

ImportsGetter(m) == EnvImports(m, "getTempRet0") # {}
ImportsSetter(m) == EnvImports(m, "setTempRet0") # {}
ExportsGetter(m) == ExportTargets(m, GET_TEMP_RET_0) # {}
ExportsSetter(m) == ExportTargets(m, SET_TEMP_RET_0) # {}

\* exactly one of the pair is imported from env, or neither is imported and
\* exactly one is exported
HalfPresent(m) ==
  \/ ImportsGetter(m) # ImportsSetter(m)
  \/ /\ ~ImportsGetter(m) /\ ~ImportsSetter(m)
     /\ ExportsGetter(m) # ExportsSetter(m)

Aborted == pc \in {"fatal", "addFunctionFatal"}

\* C6: a run on a module whose channel is half present does nothing but
\* abort in the resolver, at line 285 or 298, and the module is, before and
\* at the abort, exactly the module on entry
C6_HalfPresentFatal ==
  HalfPresent(entry) =>
    /\ pc \in {"resolve", "fatal"}
    /\ pc = "resolve" => ENABLED ResolveFatal
    /\ Mod = entry

\* a run has aborted on a module that imports the getter from env and not
\* the setter
C6_Witness ==
  /\ pc = "fatal"
  /\ ImportsGetter(entry) /\ ~ImportsSetter(entry)
  /\ Mod = entry

\* C7 as stated: a run aborts only on a module whose channel is half
\* present; on every other module, one that bears a function named
\* getTempRet0 or setTempRet0 included, the run creates nothing under a name
\* the module bears and completes
C7_Original == Aborted => HalfPresent(entry)

\* the resolver has just returned: nothing else of the run has acted
JustResolved == pc = "exports" /\ exIdx = 1

BothImported(m) == ImportsGetter(m) /\ ImportsSetter(m)
BothExported(m) == ExportsGetter(m) /\ ExportsSetter(m)

\* case 1: the names are the imports' names, no direct access, nothing made
ChannelIsImports ==
  /\ getTempRet0 \in EnvImports(entry, "getTempRet0")
  /\ setTempRet0 \in EnvImports(entry, "setTempRet0")
  /\ ~hasGlobal
  /\ JustResolved => Mod = entry

\* case 2: the names are the exports' targets, direct access exactly when
\* the module has a global named tempRet0, nothing made
ChannelIsExports ==
  /\ getTempRet0 \in ExportTargets(entry, GET_TEMP_RET_0)
  /\ setTempRet0 \in ExportTargets(entry, SET_TEMP_RET_0)
  /\ hasGlobal <=> (TEMP_RET_0 \in DOMAIN entry.globals)
  /\ JustResolved => Mod = entry

\* case 3: the register is made when absent, the two functions are made and
\* exported, direct access
ChannelIsCreated ==
  /\ getTempRet0 = GET_TEMP_RET_0
  /\ setTempRet0 = SET_TEMP_RET_0
  /\ hasGlobal
  /\ JustResolved =>
       /\ globals =
            IF TEMP_RET_0 \in DOMAIN entry.globals
            THEN entry.globals
            ELSE Put(entry.globals, TEMP_RET_0, [type |-> "i32", mutable |-> TRUE])
       /\ DOMAIN funcs = DOMAIN entry.funcs \cup {GET_TEMP_RET_0, SET_TEMP_RET_0}
       /\ {GET_TEMP_RET_0, SET_TEMP_RET_0} \cap DOMAIN entry.funcs = {}
       /\ \A n \in DOMAIN entry.funcs : funcs[n] = entry.funcs[n]
       /\ funcs[GET_TEMP_RET_0].params = <<>>
       /\ funcs[GET_TEMP_RET_0].result = "i32"
       /\ funcs[SET_TEMP_RET_0].params = <<"i32">>
       /\ funcs[SET_TEMP_RET_0].result = "none"
       /\ exports = entry.exports \o
            << Export(GET_TEMP_RET_0, GET_TEMP_RET_0, "Function"),
               Export(SET_TEMP_RET_0, SET_TEMP_RET_0, "Function") >>
       /\ types = entry.types
       /\ table = entry.table

\* C8: once the resolver has returned, its result is that of the first case
\* that applies, in the order imports, exports, creation, and direct access
\* is on only when the module has a global named tempRet0
C8_ChannelResolved ==
  Resolved =>
    /\ IF BothImported(entry) THEN ChannelIsImports
       ELSE IF BothExported(entry) THEN ChannelIsExports
       ELSE ChannelIsCreated
    /\ hasGlobal => TEMP_RET_0 \in DOMAIN globals

\* the resolver has returned on a module that exports both functions under
\* other names and has no global tempRet0: the names are the targets and
\* direct access is off
C8_Witness ==
  /\ JustResolved
  /\ ~BothImported(entry) /\ BothExported(entry)
  /\ TEMP_RET_0 \notin DOMAIN entry.globals
  /\ getTempRet0 = WASM_GET /\ setTempRet0 = WASM_SET
  /\ ~hasGlobal

-----------------------------------------------------------------------------
(* The stubs of functions that return an i64, run against a host *)

RECURSIVE Pow2(_)
Pow2(n) == IF n = 0 THEN 1 ELSE 2 * Pow2(n - 1)

\* the values of one word and of a double word
WordSize == Pow2(WordBits)
Words == 0..(WordSize - 1)
DoubleWords == 0..(WordSize * WordSize - 1)

Low(v) == v % WordSize
High(v) == v \div WordSize

Push(st, x) == [st EXCEPT !.stack = Append(st.stack, x)]

\* The effect of one node on the machine st, a stack, the stub's i64 local
\* and the channel.  v is the value in flight: the wasm function called
\* returns v whole and leaves junk in the channel; the host function called
\* returns the low word of v and leaves the high word in the channel.
ExecNode(st, node, v, junk) ==
  CASE node.op = "call" /\ node.target = setTempRet0 /\ node.type = "none" ->
         [st EXCEPT !.chan = High(st.local)]
    [] node.op = "call" /\ node.target = getTempRet0 /\ node.args = <<>> ->
         Push(st, st.chan)
    [] node.op = "call" /\ node.type = "i64" ->
         [Push(st, v) EXCEPT !.chan = junk]
    [] node.op = "call" /\ node.type = "i32" ->
         [Push(st, Low(v)) EXCEPT !.chan = High(v)]
    [] node.op = "local.set" ->
         [st EXCEPT !.local = st.stack[Len(st.stack)],
                    !.stack = SubSeq(st.stack, 1, Len(st.stack) - 1)]
    [] node.op = "global.set" /\ node.target = TEMP_RET_0 ->
         [st EXCEPT !.chan = High(st.local)]
    [] node.op = "global.get" /\ node.target = TEMP_RET_0 ->
         Push(st, st.chan)
    [] node.op = "getI64Low" ->
         Push(st, Low(st.local))
    [] node.op = "recreateI64" ->
         LET n == Len(st.stack)
         IN [st EXCEPT !.stack = SubSeq(st.stack, 1, n - 2)
                                   \o <<st.stack[n - 1] + st.stack[n] * WordSize>>]
    [] OTHER -> st

RECURSIVE Exec(_, _, _, _)
Exec(st, body, v, junk) ==
  IF body = <<>> THEN st
  ELSE Exec(ExecNode(st, Head(body), v, junk), Tail(body), v, junk)

\* the machine a stub starts on, the channel holding junk
Machine(junk) == [stack |-> <<>>, local |-> 0, chan |-> junk]

\* an export stub: inner call, store, write of the high word, low word; the
\* host then finds the low word returned and the high word in the channel
ExportStubOrdered(body) ==
  /\ Len(body) = 4
  /\ body[1].op = "call" /\ body[1].type = "i64"
  /\ body[2].op = "local.set"
  /\ body[3] = IF hasGlobal
               THEN Node("global.set", TEMP_RET_0, body[3].args, "none")
               ELSE MakeCall(setTempRet0, body[3].args, "none")
  /\ body[4].op = "getI64Low"
  /\ \A v \in DoubleWords, junk \in Words :
       LET end == Exec(Machine(junk), body, v, junk)
       IN end.stack = <<Low(v)>> /\ end.chan = High(v)

\* an import stub: call of the legal import, read of the channel,
\* recombination; a host that returns the low word of v and leaves the high
\* word in the channel makes the stub return v
ImportStubOrdered(body, name) ==
  /\ Len(body) = 3
  /\ body[1] = MakeCall(LegalImportName(name), body[1].args, "i32")
  /\ body[2] = IF hasGlobal
               THEN Node("global.get", TEMP_RET_0, <<>>, "i32")
               ELSE MakeCall(getTempRet0, <<>>, "i32")
  /\ body[3].op = "recreateI64"
  /\ \A v \in DoubleWords, junk \in Words :
       Exec(Machine(junk), body, v, junk).stack = <<v>>

\* the step adds the function n as the export stub of a function that
\* returns an i64
BuildsExportStub(n) ==
  /\ pc = "exports"
  /\ n \in DOMAIN funcs' \ DOMAIN funcs
  /\ funcs[Tail(n)].result = "i64"

\* the step adds the function n as the import stub of an import that
\* returns an i64
BuildsImportStub(n) ==
  /\ pc = "imports"
  /\ n \in DOMAIN funcs' \ DOMAIN funcs
  /\ Head(n) = "legalfunc$"
  /\ types[funcs[Tail(n)].type].result = "i64"

\* C9: every stub the run builds for a function that returns an i64 reaches
\* the channel after its call and before it returns: the export stub
\* stores the call's result, writes the high word (global.set tempRet0
\* under direct access, else a call of the resolved setter) and returns the
\* low word; the import stub calls the legal import, reads the channel
\* (global.get tempRet0 under direct access, else a call of the resolved
\* getter) and returns low + high * 2^32
C9_StubOrder ==
  [][\A n \in DOMAIN funcs' :
       /\ BuildsExportStub(n) => ExportStubOrdered(funcs'[n].body)
       /\ BuildsImportStub(n) => ImportStubOrdered(funcs'[n].body, Tail(n))]_vars

\* the run, without direct access to the register, has built the export
\* stub of f and the import stub of imp, which both return an i64
C9_Witness ==
  /\ pc = "imports"
  /\ ~hasGlobal
  /\ entry.funcs[F].result = "i64"
  /\ LegalStubName(F) \in DOMAIN funcs \ DOMAIN entry.funcs
  /\ setTempRet0 \in CallTargets(funcs[LegalStubName(F)].body)
  /\ IMP \in DOMAIN funcs /\ funcs[IMP].result = "i64"
  /\ LegalFuncName(IMP) \in DOMAIN funcs \ DOMAIN entry.funcs
  /\ getTempRet0 \in CallTargets(funcs[LegalFuncName(IMP)].body)

-----------------------------------------------------------------------------
(* The parallel phase *)

\* the import loop is over, and every import that was illegal when the run
\* began has been through it: it has its map entry, naming its stub, it is
\* removed, and no table entry names it
ImportsSettled ==
  /\ imIdx > Len(originalFunctions)
  /\ \A x \in IllegalImports(entry) :
       /\ x \in Range(originalFunctions)
       /\ x \in DOMAIN illegalImportsToLegal
       /\ illegalImportsToLegal[x] = LegalFuncName(x)
       /\ x \notin DOMAIN funcs
       /\ x \notin TableNames(Mod)

\* the body with each call of a mapped import retargeted to the import's
\* stub, but in that stub itself
Redirected(body, n) ==
  [k \in DOMAIN body |->
     IF /\ body[k].op = "call"
        /\ body[k].target \in DOMAIN illegalImportsToLegal
        /\ illegalImportsToLegal[body[k].target] # n
     THEN [body[k] EXCEPT !.target = illegalImportsToLegal[body[k].target]]
     ELSE body[k]]

\* the module FixImports started on, every defined function's body
\* redirected
FixedModule ==
  [preFix EXCEPT !.funcs =
     [n \in DOMAIN preFix.funcs |->
        IF preFix.funcs[n].module = ""
        THEN [preFix.funcs[n] EXCEPT !.body = Redirected(preFix.funcs[n].body, n)]
        ELSE preFix.funcs[n]]]

\* the walker of the function n, and no other, has acted: only n's body and
\* n's position may differ
OnlyWorker(n) ==
  /\ fixPos'[n] # fixPos[n]
  /\ \A m \in DOMAIN funcs \ {n} : funcs'[m] = funcs[m]
  /\ \A m \in DOMAIN fixPos \ {n} : fixPos'[m] = fixPos[m]
  /\ [funcs'[n] EXCEPT !.body = funcs[n].body] = funcs[n]

\* a step of the parallel phase
ParallelStep ==
  /\ illegalImportsToLegal' = illegalImportsToLegal
  /\ DOMAIN funcs' = DOMAIN funcs
  /\ DOMAIN fixPos' = DOMAIN fixPos
  /\ <<funcOrder, types, exports, globals, table>>'
       = <<funcOrder, types, exports, globals, table>>
  /\ pc' = "fix" => \E n \in DOMAIN fixPos : OnlyWorker(n)
  /\ pc' # "fix" => (pc' = "done" /\ funcs' = funcs)

====
